---- MODULE Spec2Model ----
(***************************************************************************)
(* Attention State Engine and Session & Access Gate of the RFAI learning   *)
(* assistant (nehraa/Learning_AI): SessionManager, BlockAccessManager,     *)
(* TimeBlockContentManager, the /api session and access handlers and the   *)
(* score computation of the three sampling daemons.                        *)
(*                                                                         *)
(* Units.  Time is counted in whole minutes and a day has DayLen minutes.  *)
(* `now' is the machine's naive local clock (Python's datetime.now());     *)
(* sqlite's datetime('now') is the UTC clock now - tz.  Attention          *)
(* thresholds and averages that the code keeps as fractions in [0,1] are   *)
(* counted in percent (0..100); the scores of the attention log are on the *)
(* 0..100 scale in the code already.                                       *)
(***************************************************************************)
EXTENDS Integers, Sequences, FiniteSets, TLC

\* ---------------------------------------------------------------- bounds
MaxClock == 3
DayLen == 3
TzShift == 1
MaxRows == 2
MaxSamples == 2
MaxContent == 1
MaxLog == 1
MaxGateRows == 1
MaxDwellTicks == 3
MaxRun == 4
MaxSources == 2
MaxHistory == 11

\* sqlite NULL / Python None in an integer column
NULL == -1

RECURSIVE SumSeq(_)
SumSeq(s) == IF s = <<>> THEN 0 ELSE Head(s) + SumSeq(Tail(s))

\* ---------------------------------------------------------------- inputs
BlockNames == {"Science", "Movies"}
SessionBlockNames == {"Science"}
BlockTypeOf(name) == IF name = "Science" THEN "science_youtube_and_papers" ELSE "artistic_movies"
Goals == {0, 2}
Thresholds == {0, 70}
AvgAttentions == {50, 80}
Scores == {20, 80}
\* scores of the samples a session collects, in hundredths of a point (20.00
\* and 75.25): the precision get_session_stats reports
SampleScores == {2000, 7525}
TzOffsets == {0 - TzShift, 0, TzShift}

VARIABLES
    now,                   \* naive local clock (datetime.now()), minutes
    tz,                    \* offset of local time from UTC, minutes
    current_session,       \* SessionManager.current_session: <<>> (None) or <<session>>
    time_block_sessions,   \* table time_block_sessions, row id = index
    attention_log,         \* table attention_log: rows [timestamp, score]
    schedule,              \* config['daily_schedule']['time_blocks']
    tbm_current_block,     \* TimeBlockContentManager.current_block
    manual_override_block, \* TimeBlockContentManager.manual_override_block
    result                 \* what the last call returned

VARIABLES
    daemon,                \* which classifier this process runs
    capabilities,          \* the signal sources its set-up found available
    last_state,            \* self.last_state
    state_duration,        \* self.state_duration, seconds
    candidate_run          \* history: the band of the latest ticks' scores and
                           \* the number of consecutive ticks it has been produced

VARIABLES
    config_file            \* interests.json as found at load time

VARIABLES
    running,               \* self.running
    pc,                    \* where the daemon's thread is in run()
    stop_requested         \* history: stop() has been called

VARIABLES
    focus_history,         \* self.focus_history of AttentionMonitorDaemon
    camera_handle,         \* self.camera, the cv2.VideoCapture: "none", "open", "released"
    release_calls,         \* history: calls of camera.release() by stop(), up to 2
    requests               \* the HTTP requests in flight inside SessionManager

tbmVars == <<config_file, schedule, tbm_current_block, manual_override_block>>
clsVars == <<daemon, capabilities, last_state, state_duration, candidate_run>>
runVars == <<running, pc, stop_requested>>
extVars == <<focus_history, camera_handle, release_calls, requests>>
vars == <<now, tz, current_session, time_block_sessions, attention_log,
          schedule, tbm_current_block, manual_override_block, result,
          daemon, capabilities, last_state, state_duration, candidate_run,
          running, pc, stop_requested, config_file,
          focus_history, camera_handle, release_calls, requests>>

\* Python's datetime.now(): naive local time
LocalNow == now

\* sqlite's datetime('now'): UTC
UtcNow == now - tz

HasSession == current_session # <<>>
Session == current_session[1]

\* ------------------------------------------------------- SessionManager

\* (datetime.now() - start_time).total_seconds() / 60
SessionElapsed == LocalNow - Session.start_time

NewSession(id, block_name, block_type, goal, threshold) ==
    [id |-> id,
     block_name |-> block_name,
     block_type |-> block_type,
     goal_duration_minutes |-> goal,
     attentiveness_threshold |-> threshold,
     start_time |-> LocalNow,
     content_shown |-> 0,
     attention_scores |-> <<>>]

NewRow(block_name, goal) ==
    [block_name |-> block_name,
     start_time |-> UtcNow,
     goal_duration_minutes |-> goal,
     end_time |-> NULL,
     attention_average |-> NULL]

\* SessionManager.start_session: inserts a row and replaces current_session;
\* a failing database call is caught and reported.
start_session(block_name, block_type, goal, threshold, dbOk) ==
    /\ Len(time_block_sessions) < MaxRows
    /\ IF dbOk
       THEN /\ time_block_sessions' =
                   Append(time_block_sessions, NewRow(block_name, goal))
            /\ current_session' =
                   <<NewSession(Len(time_block_sessions) + 1, block_name, block_type,
                                goal, threshold)>>
            /\ result' = [op |-> "start_session", success |-> TRUE,
                          session_id |-> Len(time_block_sessions) + 1]
       ELSE /\ UNCHANGED <<time_block_sessions, current_session>>
            /\ result' = [op |-> "start_session", success |-> FALSE,
                          session_id |-> NULL]
    /\ UNCHANGED <<now, tz, attention_log, tbmVars, clsVars, runVars, extVars>>

\* SessionManager.is_session_complete: the verdict on the current session for
\* the caller's average attention.  elapsed / goal and avg_attention / threshold
\* are float divisions and raise ZeroDivisionError on a zero divisor.
time_complete(elapsed, goal) == elapsed >= goal
attention_complete(avg_attention, threshold) == avg_attention >= threshold

SessionVerdictBroken(time_met, attention_met) == time_met \/ attention_met
SessionVerdict(time_met, attention_met) == time_met /\ attention_met

is_session_complete_result(avg_attention) ==
    IF ~HasSession
    THEN [op |-> "is_session_complete", raised |-> FALSE, active |-> FALSE,
          is_complete |-> FALSE, time_met |-> FALSE, attention_met |-> FALSE,
          avg |-> avg_attention]
    ELSE IF Session.goal_duration_minutes = 0 \/ Session.attentiveness_threshold = 0
    THEN [op |-> "is_session_complete", raised |-> TRUE, active |-> TRUE,
          is_complete |-> FALSE, time_met |-> FALSE, attention_met |-> FALSE,
          avg |-> avg_attention]
    ELSE [op |-> "is_session_complete", raised |-> FALSE, active |-> TRUE,
          is_complete |->
              SessionVerdict(time_complete(SessionElapsed, Session.goal_duration_minutes),
                             attention_complete(avg_attention,
                                                Session.attentiveness_threshold)),
          time_met |-> time_complete(SessionElapsed, Session.goal_duration_minutes),
          attention_met |-> attention_complete(avg_attention,
                                               Session.attentiveness_threshold),
          avg |-> avg_attention]

is_session_complete(avg_attention) ==
    /\ result' = is_session_complete_result(avg_attention)
    /\ UNCHANGED <<now, tz, current_session, time_block_sessions, attention_log, tbmVars, clsVars, runVars, extVars>>

\* SessionManager.record_content_shown
record_content_shown ==
    /\ HasSession
    /\ Session.content_shown < MaxContent
    /\ current_session' = <<[Session EXCEPT !.content_shown = @ + 1]>>
    /\ result' = [op |-> "record_content_shown"]
    /\ UNCHANGED <<now, tz, time_block_sessions, attention_log, tbmVars, clsVars, runVars, extVars>>

\* SessionManager.record_attention_sample: returns at once with no session
record_attention_sample(score) ==
    /\ IF HasSession
       THEN /\ Len(Session.attention_scores) < MaxSamples
            /\ current_session' = <<[Session EXCEPT !.attention_scores = Append(@, score)]>>
       ELSE UNCHANGED current_session
    /\ result' = [op |-> "record_attention_sample"]
    /\ UNCHANGED <<now, tz, time_block_sessions, attention_log, tbmVars, clsVars, runVars, extVars>>

Abs(x) == IF x < 0 THEN 0 - x ELSE x

\* a mean that is the sum, not divided
UndividedChoices(sum, count) == {sum}

\* round(sum / count, 2) of scores given in hundredths of a point: the nearest
\* whole number of hundredths; a quotient halfway between two goes to the one
\* the binary float happens to lie nearer to
Round2Choices(sum, count) ==
    {q \in (sum \div count)..((sum \div count) + 1) : 2 * Abs(q * count - sum) <= count}

\* SessionManager.get_session_stats: (elapsed / goal) raises ZeroDivisionError
\* for a goal of zero
get_session_stats ==
    /\ IF ~HasSession
       THEN result' = [op |-> "get_session_stats", raised |-> FALSE, active |-> FALSE]
       ELSE IF Session.goal_duration_minutes = 0
       THEN result' = [op |-> "get_session_stats", raised |-> TRUE, active |-> TRUE]
       ELSE \E avg \in (IF Session.attention_scores = <<>> THEN {0}
                         ELSE Round2Choices(SumSeq(Session.attention_scores),
                                            Len(Session.attention_scores))) :
               result' = [op |-> "get_session_stats", raised |-> FALSE, active |-> TRUE,
                          elapsed_minutes |-> SessionElapsed,
                          goal_minutes |-> Session.goal_duration_minutes,
                          average_attention |-> avg,
                          threshold |-> Session.attentiveness_threshold,
                          content_count |-> Session.content_shown]
    /\ UNCHANGED <<now, tz, current_session, time_block_sessions, attention_log, tbmVars, clsVars, runVars, extVars>>

\* SessionManager.end_session: closes the row of the current session with the
\* caller's average and clears the slot, at any elapsed time.
end_session(avg_attention, dbOk) ==
    /\ IF ~HasSession
       THEN /\ result' = [op |-> "end_session", success |-> FALSE, session_id |-> NULL]
            /\ UNCHANGED <<current_session, time_block_sessions>>
       ELSE IF dbOk
       THEN /\ time_block_sessions' =
                   [time_block_sessions EXCEPT ![Session.id] =
                       [@ EXCEPT !.end_time = UtcNow,
                                 !.attention_average = avg_attention]]
            /\ current_session' = <<>>
            /\ result' = [op |-> "end_session", success |-> TRUE, session_id |-> Session.id,
                          session_data |-> [duration_minutes |-> SessionElapsed,
                                            average_attention |-> avg_attention,
                                            content_count |-> Session.content_shown]]
       ELSE /\ result' = [op |-> "end_session", success |-> FALSE, session_id |-> Session.id]
            /\ UNCHANGED <<current_session, time_block_sessions>>
    /\ UNCHANGED <<now, tz, attention_log, tbmVars, clsVars, runVars, extVars>>

\* ---------------------------------------------- TimeBlockContentManager

\* Python None for a block
NoBlock == [name |-> "None", start_time |-> NULL, end_time |-> NULL, content_type |-> "None"]

Block(name, start, end) ==
    [name |-> name, start_time |-> start, end_time |-> end, content_type |-> BlockTypeOf(name)]

\* The schedules a configuration may hold: none, one block that contains the
\* start-up time, two blocks that begin after start-up.
Schedules ==
    {<<>>,
     <<Block("Science", 0, 1)>>,
     <<Block("Science", 1, 1), Block("Movies", 2, 2)>>}

\* interests.json at load time: readable JSON, absent, or not JSON
ConfigFiles == {"valid", "missing", "malformed"}

\* _load_config: the parsed file, or {} when open() or json.load() raises; the
\* time_blocks of {} are the empty list
load_config(file, time_blocks) == IF file = "valid" THEN time_blocks ELSE <<>>

\* now.strftime("%H:%M"): the time of day.  The code compares the zero-padded
\* strings, which order as the minutes of the day do.
TimeOfDay(t) == t % DayLen

BlocksAt(tod) ==
    {i \in 1..Len(schedule) :
        schedule[i].start_time <= tod /\ tod <= schedule[i].end_time}

\* for block in schedule: if start <= current_time <= end: return block
ScheduleBlockAt(tod) ==
    IF BlocksAt(tod) = {}
    THEN NoBlock
    ELSE schedule[CHOOSE i \in BlocksAt(tod) : \A j \in BlocksAt(tod) : i <= j]

\* a _get_current_block without its override test
tbm_get_current_block_ignoring(override) == ScheduleBlockAt(TimeOfDay(LocalNow))

\* TimeBlockContentManager._get_current_block with a given override; the
\* configured timezone is taken to be the machine's.
tbm_get_current_block(override) ==
    IF override # NoBlock THEN override ELSE ScheduleBlockAt(TimeOfDay(LocalNow))

BlockNamed(block_name) ==
    {i \in 1..Len(schedule) : schedule[i].name = block_name}

\* TimeBlockContentManager.set_manual_override: the override it leaves
OverrideAfter(block_name) ==
    IF block_name = "None" THEN NoBlock
    ELSE IF BlockNamed(block_name) = {} THEN manual_override_block
    ELSE schedule[CHOOSE i \in BlockNamed(block_name) : \A j \in BlockNamed(block_name) : i <= j]

\* POST /api/schedule/override: set_manual_override, then the handler
\* refreshes current_block
set_manual_override(block_name) ==
    /\ manual_override_block' = OverrideAfter(block_name)
    /\ tbm_current_block' = tbm_get_current_block(OverrideAfter(block_name))
    /\ result' = [op |-> "set_manual_override",
                  block_name |-> block_name,
                  override_active |-> OverrideAfter(block_name) # NoBlock,
                  current_block |-> tbm_get_current_block(OverrideAfter(block_name)).name]
    /\ UNCHANGED <<now, tz, current_session, time_block_sessions, attention_log, schedule, config_file, clsVars, runVars, extVars>>

\* DELETE /api/schedule/override: TimeBlockContentManager.clear_override
clear_manual_override ==
    /\ manual_override_block' = NoBlock
    /\ tbm_current_block' = tbm_get_current_block(NoBlock)
    /\ result' = [op |-> "clear_manual_override", override_active |-> FALSE]
    /\ UNCHANGED <<now, tz, current_session, time_block_sessions, attention_log, schedule, config_file, clsVars, runVars, extVars>>

\* TimeBlockContentManager.get_block_info: the block held in current_block
get_block_info == tbm_current_block

\* content_to_block_map.get(requested_content_type, requested_content_type)
content_to_block_map(requested) ==
    CASE requested = "science_youtube" -> "science_youtube_and_papers"
      [] requested = "science_papers" -> "science_youtube_and_papers"
      [] requested = "self_help_youtube" -> "self_help_youtube"
      [] requested = "movies" -> "artistic_movies"
      [] OTHER -> requested

ContentTypes == {"science_youtube", "movies", "youtube_science", "papers"}

\* GET /api/access-control/check; the reason is kept as its text and the
\* block name interpolated into it
check_access_result(requested) ==
    IF get_block_info = NoBlock
    THEN [op |-> "check_access", requested |-> requested, access_allowed |-> TRUE,
          reason |-> [text |-> "No active time block - unrestricted access",
                      block |-> "None"],
          current_block |-> "None"]
    ELSE IF content_to_block_map(requested) = get_block_info.content_type
    THEN [op |-> "check_access", requested |-> requested, access_allowed |-> TRUE,
          reason |-> [text |-> "Accessing allowed content for",
                      block |-> get_block_info.name],
          current_block |-> get_block_info.name]
    ELSE [op |-> "check_access", requested |-> requested, access_allowed |-> FALSE,
          reason |-> [text |-> "Content locked during", block |-> get_block_info.name],
          current_block |-> get_block_info.name]

check_access(requested) ==
    /\ result' = check_access_result(requested)
    /\ UNCHANGED <<now, tz, current_session, time_block_sessions, attention_log, tbmVars, clsVars, runVars, extVars>>

\* ------------------------------------------- database rows and timestamps

\* A timestamp string as the fields its characters spell, in order: the date,
\* the separator and the time of day.  sqlite's datetime('now') writes
\* "YYYY-MM-DD HH:MM:SS" (separator " "); Python's isoformat() writes
\* "YYYY-MM-DDTHH:MM:SS.ffffff" (separator "T", which sorts after " ").
SqliteDatetime(t) == <<t \div DayLen, 0, t % DayLen>>
IsoFormat(t) == <<t \div DayLen, 1, t % DayLen>>

\* SQL's <= on two TEXT values: character by character
StrLE(a, b) ==
    \/ a[1] < b[1]
    \/ a[1] = b[1] /\ a[2] < b[2]
    \/ a[1] = b[1] /\ a[2] = b[2] /\ a[3] <= b[3]

\* AttentionMonitorDaemon.log_attention_event: one row per tick, stamped
\* datetime.now().isoformat()
log_attention_event(score) ==
    /\ Len(attention_log) < MaxLog
    /\ attention_log' = Append(attention_log, [timestamp |-> LocalNow, score |-> score])
    /\ result' = [op |-> "log_attention_event"]
    /\ UNCHANGED <<now, tz, current_session, time_block_sessions, tbmVars, clsVars, runVars, extVars>>

\* POST /api/time-blocks/session/start
start_time_block_session(block_name, goal) ==
    /\ Len(time_block_sessions) < MaxGateRows
    /\ time_block_sessions' = Append(time_block_sessions, NewRow(block_name, goal))
    /\ result' = [op |-> "start_time_block_session", success |-> TRUE,
                  session_id |-> Len(time_block_sessions) + 1]
    /\ UNCHANGED <<now, tz, current_session, attention_log, tbmVars, clsVars, runVars, extVars>>

\* SELECT AVG(score) FROM attention_log WHERE <rows>: the rows, their sum
RowsSum(rows) == SumSeq([k \in 1..Len(rows) |-> attention_log[rows[k]].score])

RECURSIVE SetToSeq(_)
SetToSeq(S) ==
    IF S = {} THEN <<>>
    ELSE LET x == CHOOSE y \in S : \A z \in S : y <= z
         IN <<x>> \o SetToSeq(S \ {x})

ScoreSum(S) == RowsSum(SetToSeq(S))

\* AVG(score) as stored in a column; NULL over no rows
AvgOrNull(S) == IF S = {} THEN NULL ELSE ScoreSum(S) \div Cardinality(S)

\* WHERE timestamp >= (SELECT start_time FROM time_block_sessions WHERE id = ?)
LogSince(start_time) ==
    {i \in 1..Len(attention_log) :
        StrLE(SqliteDatetime(start_time), IsoFormat(attention_log[i].timestamp))}

\* POST /api/time-blocks/session/<id>/end: the UPDATE touches the row with
\* that id, if there is one, whether or not it has ended
end_time_block_session(session_id) ==
    /\ time_block_sessions' =
           IF session_id \in 1..Len(time_block_sessions)
           THEN [time_block_sessions EXCEPT ![session_id] =
                    [time_block_sessions[session_id] EXCEPT
                        !.end_time = UtcNow,
                        !.attention_average =
                            AvgOrNull(LogSince(time_block_sessions[session_id].start_time))]]
           ELSE time_block_sessions
    /\ result' = [op |-> "end_time_block_session", success |-> TRUE,
                  session_id |-> session_id]
    /\ UNCHANGED <<now, tz, current_session, attention_log, tbmVars, clsVars, runVars, extVars>>

\* --------------------------------------------------- BlockAccessManager

\* daily_schedule.attentiveness_threshold, default 0.7, in percent
ConfigThreshold == 70

\* BlockAccessManager._get_current_block
bam_get_current_block == ScheduleBlockAt(TimeOfDay(LocalNow))

\* BlockAccessManager._get_active_session_id: the open rows of the block with
\* the latest start_time (ORDER BY start_time DESC LIMIT 1 picks one of them)
ActiveSessionIds(block) ==
    LET open == {i \in 1..Len(time_block_sessions) :
                    /\ time_block_sessions[i].block_name = block.name
                    /\ time_block_sessions[i].end_time = NULL}
    IN {i \in open : \A j \in open :
            time_block_sessions[j].start_time <= time_block_sessions[i].start_time}

\* BlockAccessManager._get_session_attention: the rows between the session's
\* start_time and COALESCE(end_time, datetime('now'))
SessionAttentionRows(id) ==
    LET row == time_block_sessions[id]
        upto == IF row.end_time = NULL THEN UtcNow ELSE row.end_time
    IN {i \in LogSince(row.start_time) :
            StrLE(IsoFormat(attention_log[i].timestamp), SqliteDatetime(upto))}

\* goal_met = attention_avg >= (threshold * 100) if attention_avg else False.
\* In binary floating point 0.7 * 100 is 70.00000000000001, which an average
\* of exactly 70 does not reach.
GoalMet(rows) ==
    /\ rows # {}
    /\ ScoreSum(rows) > 0
    /\ ScoreSum(rows) > ConfigThreshold * Cardinality(rows)

\* BlockAccessManager._get_allowed_content_types
AllTypes == {"youtube_self_help", "youtube_science", "papers", "movies"}

get_allowed_content_types(block) ==
    IF block = NoBlock THEN AllTypes
    ELSE IF block.content_type \in {"science_youtube_and_papers"}
    THEN {"youtube_science", "papers"}
    ELSE IF block.content_type \in {"self_help_youtube"} THEN {"youtube_self_help"}
    ELSE IF block.content_type \in {"artistic_movies"} THEN {"movies"}
    ELSE AllTypes

\* BlockAccessManager.get_access_status, for the session id the query returned
\* (NULL: no open session of the block)
get_access_status(session_id) ==
    LET block == bam_get_current_block IN
    IF block # NoBlock
    THEN IF session_id # NULL
         THEN [has_active_block |-> TRUE, block_name |-> block.name,
               locked |-> ~GoalMet(SessionAttentionRows(session_id)),
               lock_reason |->
                   IF ~GoalMet(SessionAttentionRows(session_id))
                   THEN [text |-> "Attentiveness goal not met", block |-> "None"]
                   ELSE [text |-> "None", block |-> "None"],
               allowed_content_types |-> get_allowed_content_types(block),
               session_id |-> session_id]
         ELSE [has_active_block |-> TRUE, block_name |-> block.name,
               locked |-> FALSE,
               lock_reason |-> [text |-> "None", block |-> "None"],
               allowed_content_types |-> get_allowed_content_types(block),
               session_id |-> NULL]
    ELSE [has_active_block |-> FALSE, block_name |-> "None",
          locked |-> FALSE,
          lock_reason |-> [text |-> "None", block |-> "None"],
          allowed_content_types |-> AllTypes,
          session_id |-> NULL]

SessionIdChoices ==
    IF bam_get_current_block = NoBlock \/ ActiveSessionIds(bam_get_current_block) = {}
    THEN {NULL}
    ELSE ActiveSessionIds(bam_get_current_block)

\* BlockAccessManager.can_access_content
can_access_content(content_type) ==
    /\ \E sid \in SessionIdChoices :
          LET status == get_access_status(sid) IN
          result' = [op |-> "can_access_content", requested |-> content_type,
                     allowed |-> IF status.locked THEN FALSE
                                 ELSE content_type \in status.allowed_content_types,
                     status |-> status]
    /\ UNCHANGED <<now, tz, current_session, time_block_sessions, attention_log, tbmVars, clsVars, runVars, extVars>>

\* BlockAccessManager.get_block_progress: elapsed is the naive local now minus
\* the naive reading of the UTC start_time string
ProgressRows(start_time) ==
    {i \in LogSince(start_time) :
        StrLE(IsoFormat(attention_log[i].timestamp), SqliteDatetime(UtcNow))}

\* attention_met = (avg_attention / 100) >= threshold, avg 0 over no rows
attention_met(rows) ==
    IF rows = {} THEN 0 >= ConfigThreshold
    ELSE ScoreSum(rows) >= ConfigThreshold * Cardinality(rows)

\* elapsed_minutes >= goal_minutes * 1.5
OverTime(elapsed_minutes, goal_minutes) == 2 * elapsed_minutes >= 3 * goal_minutes

get_block_progress(session_id) ==
    /\ IF session_id \notin 1..Len(time_block_sessions)
       THEN result' = [op |-> "get_block_progress", session_id |-> session_id,
                       error |-> TRUE, elapsed_minutes |-> 0,
                       attention_met |-> FALSE, can_end_session |-> FALSE]
       ELSE LET row == time_block_sessions[session_id]
                elapsed_minutes == LocalNow - row.start_time
            IN result' = [op |-> "get_block_progress", session_id |-> session_id,
                          error |-> FALSE, elapsed_minutes |-> elapsed_minutes,
                          attention_met |-> attention_met(ProgressRows(row.start_time)),
                          can_end_session |->
                              \/ attention_met(ProgressRows(row.start_time))
                              \/ OverTime(elapsed_minutes, row.goal_duration_minutes)]
    /\ UNCHANGED <<now, tz, current_session, time_block_sessions, attention_log, tbmVars, clsVars, runVars, extVars>>

\* ------------------------------------------------ the focus classifiers

Daemons == {"AttentionMonitorDaemon", "FocusDetectorDaemon", "EnhancedFocusDetector"}

\* self.weights, in percent
weights(d) ==
    CASE d = "AttentionMonitorDaemon" ->
            [camera |-> 30, microphone |-> 15, keyboard |-> 20,
             mouse |-> 15, window |-> 15, cpu |-> 5]
      [] d = "FocusDetectorDaemon" ->
            [keyboard |-> 30, mouse |-> 25, window |-> 25, cpu |-> 20]
      [] d = "EnhancedFocusDetector" ->
            [keyboard |-> 15, mouse |-> 15, window |-> 15, cpu |-> 10,
             pose |-> 25, gaze |-> 20]

\* interval_seconds, the default of each constructor
Interval(d) == IF d = "AttentionMonitorDaemon" THEN 5 ELSE 30

\* the dwell time the hysteresis test compares state_duration with
Dwell(d) == IF d = "AttentionMonitorDaemon" THEN 10 ELSE 60

\* The sets of sources a set-up can leave available.  pynput gives keyboard
\* and mouse together; AttentionMonitorDaemon's system monitoring gives
\* keyboard, mouse and cpu together and its window signal has no switch; the
\* camera of EnhancedFocusDetector gives pose and gaze together.
AvailableSets(d) ==
    {S \in SUBSET (DOMAIN weights(d)) :
        /\ ("keyboard" \in S) = ("mouse" \in S)
        /\ d = "AttentionMonitorDaemon" =>
              /\ "window" \in S
              /\ ("keyboard" \in S) = ("cpu" \in S)
        /\ d = "EnhancedFocusDetector" => ("pose" \in S) = ("gaze" \in S)}

\* The values each _get_<source>_signal can return, in percent.  The keyboard
\* and mouse signals of AttentionMonitorDaemon decay continuously from 1.0 to
\* 0.0; three of their values stand for the range.
Readings(d, source) ==
    IF d = "AttentionMonitorDaemon"
    THEN CASE source = "camera" -> {0, 50, 90}
           [] source = "microphone" -> {30}
           [] source = "keyboard" -> {0, 50, 100}
           [] source = "mouse" -> {0, 50, 100}
           [] source = "cpu" -> {40, 50, 80}
           [] source = "window" -> {70}
    ELSE CASE source = "keyboard" -> {70}
           [] source = "mouse" -> {60}
           [] source = "window" -> {80}
           [] source = "cpu" -> {30, 50, 70, 90}
           [] source = "pose" -> {30, 40, 50, 70, 90}
           [] source = "gaze" -> {30, 50, 60, 90}

\* the value written for a source that is not available
Neutral == 50

\* the value of one source at one tick
Sig(source) ==
    IF source \in capabilities THEN Readings(daemon, source) ELSE {Neutral}

\* sum(self.weights.get(key, 0) * value for key, value in signals.items())
RECURSIVE WeightedSum(_, _, _)
WeightedSum(w, signals, keys) ==
    IF keys = {} THEN 0
    ELSE LET k == CHOOSE x \in keys : TRUE
         IN w[k] * signals[k] + WeightedSum(w, signals, keys \ {k})

\* sum of the weights of a set of sources
RECURSIVE TotalWeight(_, _)
TotalWeight(w, keys) ==
    IF keys = {} THEN 0
    ELSE LET k == CHOOSE x \in keys : TRUE
         IN w[k] + TotalWeight(w, keys \ {k})

\* The composite score as the fraction num / den of percent values:
\* AttentionMonitorDaemon and FocusDetectorDaemon divide by the sum of all
\* the weights
FuseAll(w, signals) ==
    [num |-> WeightedSum(w, signals, DOMAIN signals),
     den |-> TotalWeight(w, DOMAIN w)]

\* EnhancedFocusDetector divides by the weights of the signals it read, and
\* answers 0.5 when it read none
FusePresent(w, signals) ==
    IF TotalWeight(w, DOMAIN signals) > 0
    THEN [num |-> WeightedSum(w, signals, DOMAIN signals),
          den |-> TotalWeight(w, DOMAIN signals)]
    ELSE [num |-> 50, den |-> 1]

\* the band of a composite score
Classify(d, score) ==
    IF d = "AttentionMonitorDaemon"
    THEN IF score.num >= 75 * score.den THEN "FOCUSED"
         ELSE IF score.num >= 55 * score.den THEN "ACTIVE"
         ELSE IF score.num >= 30 * score.den THEN "DISTRACTED"
         ELSE "INACTIVE"
    ELSE IF score.num >= 75 * score.den THEN "FOCUSED"
         ELSE IF score.num >= 50 * score.den THEN "ACTIVE"
         ELSE IF score.num >= 25 * score.den THEN "DISTRACTED"
         ELSE "INACTIVE"

\* if state != self.last_state: self.state_duration = 0
\* else: self.state_duration += self.interval
DurationAfter(new_state) ==
    IF new_state # last_state THEN 0 ELSE state_duration + Interval(daemon)

\* a hold that makes no exception for INACTIVE
HoldsFromEveryState(new_state) == DurationAfter(new_state) < Dwell(daemon)

\* if self.state_duration < dwell and self.last_state != "INACTIVE":
\*     state = self.last_state
HoldsLastState(new_state) ==
    DurationAfter(new_state) < Dwell(daemon) /\ last_state # "INACTIVE"

\* confidence = min(0.95, 0.5 + state_duration / 300), in sixtieths; the
\* divisor is 60 in AttentionMonitorDaemon
Confidence(d, duration) ==
    LET c == IF d = "AttentionMonitorDaemon" THEN 30 + duration
             ELSE 30 + (duration \div 5)
    IN IF c > 57 THEN 57 ELSE c

\* The number of capabilities the returned dictionary reports:
\* sum(self.capabilities.values()) in the two focus detectors, whose dictionary
\* has one entry for the camera; the true flags among camera, microphone and
\* system in AttentionMonitorDaemon, which has no flag for its window signal.
ReportedCapabilities(d, available) ==
    IF d = "AttentionMonitorDaemon"
    THEN Cardinality(available \cap {"camera", "microphone", "keyboard"})
    ELSE Cardinality(available \cap {"keyboard", "mouse", "window", "cpu"})
           + (IF "pose" \in available THEN 1 ELSE 0)

NoRun == [band |-> "None", count |-> 0]

\* the history variable: one more tick of the same band, or a new band
RunAfter(new_state) ==
    IF new_state = candidate_run.band
    THEN [band |-> new_state,
          count |-> IF candidate_run.count < MaxRun
                    THEN candidate_run.count + 1 ELSE MaxRun]
    ELSE [band |-> new_state, count |-> 1]

\* the part of compute_*_score after the fusion: classification, smoothing
\* and the returned dictionary
Smooth(op, signals, score) ==
    LET new_state == Classify(daemon, score) IN
    /\ DurationAfter(new_state) <= MaxDwellTicks * Interval(daemon)
    /\ state_duration' = DurationAfter(new_state)
    /\ last_state' = IF HoldsLastState(new_state) THEN last_state ELSE new_state
    /\ candidate_run' = RunAfter(new_state)
    /\ result' = [op |-> op,
                  state |-> IF HoldsLastState(new_state) THEN last_state ELSE new_state,
                  confidence |-> Confidence(daemon, DurationAfter(new_state)),
                  score |-> score,
                  signals |-> signals,
                  capabilities |-> ReportedCapabilities(daemon, capabilities)]
    /\ UNCHANGED <<now, tz, current_session, time_block_sessions, attention_log,
                   tbmVars, daemon, capabilities>>

\* AttentionMonitorDaemon._get_camera_signal, called when camera_available:
\* 0.5 when the handle is no longer open
CameraSignal ==
    IF camera_handle = "released" THEN {Neutral} ELSE Sig("camera")

\* AttentionMonitorDaemon.compute_attention_score
compute_attention_score ==
    /\ daemon = "AttentionMonitorDaemon"
    /\ \E camera \in CameraSignal, microphone \in Sig("microphone"),
          keyboard \in Sig("keyboard"), mouse \in Sig("mouse"),
          cpu \in Sig("cpu"), window \in Sig("window") :
          LET signals == [camera |-> camera, microphone |-> microphone,
                          keyboard |-> keyboard, mouse |-> mouse,
                          cpu |-> cpu, window |-> window]
          IN Smooth("compute_attention_score", signals,
                    FuseAll(weights(daemon), signals))

\* FocusDetectorDaemon.compute_focus_score
compute_focus_score ==
    /\ daemon = "FocusDetectorDaemon"
    /\ \E keyboard \in Sig("keyboard"), mouse \in Sig("mouse"),
          window \in Sig("window"), cpu \in Sig("cpu") :
          LET signals == [keyboard |-> keyboard, mouse |-> mouse,
                          window |-> window, cpu |-> cpu]
          IN Smooth("compute_focus_score", signals,
                    FuseAll(weights(daemon), signals))

\* EnhancedFocusDetector.compute_focus_score: signals holds the available
\* sources only
enhanced_compute_focus_score ==
    /\ daemon = "EnhancedFocusDetector"
    /\ \E keyboard \in Sig("keyboard"), mouse \in Sig("mouse"),
          window \in Sig("window"), cpu \in Sig("cpu"),
          pose \in Sig("pose"), gaze \in Sig("gaze") :
          LET all == [keyboard |-> keyboard, mouse |-> mouse, window |-> window,
                      cpu |-> cpu, pose |-> pose, gaze |-> gaze]
              signals == [k \in capabilities |-> all[k]]
          IN Smooth("enhanced_compute_focus_score", signals,
                    FusePresent(weights(daemon), signals))

\* no classifier runs in this process
ClassifierIdle ==
    /\ daemon = "None"
    /\ capabilities = {}
    /\ last_state = "INACTIVE"
    /\ state_duration = 0
    /\ candidate_run = NoRun

\* ------------------------------------- AttentionMonitorDaemon's trend

\* self.max_history
max_history == 60

\* self.focus_history.append(composite_score), then pop(0) beyond max_history
HistoryAfter(composite_score) ==
    LET h == Append(focus_history, composite_score)
    IN IF Len(h) > max_history THEN Tail(h) ELSE h

\* self.focus_history[-10:]
RecentScores(h) == SubSeq(h, Len(h) - 9, Len(h))

\* self.focus_history[-20:-10]: a slice, shorter than ten below 20 scores
OlderScores(h) ==
    SubSeq(h, IF Len(h) > 20 THEN Len(h) - 19 ELSE 1, Len(h) - 10)

\* trend = recent_avg - older_avg with both sums divided by 10, else 0;
\* kept as ten times its value
TrendTimesTen(h) ==
    IF Len(h) > 10 THEN SumSeq(RecentScores(h)) - SumSeq(OlderScores(h)) ELSE 0

\* The part of compute_attention_score that keeps the history and computes
\* the trend.  It reads the tick's composite score and focus_history and
\* writes focus_history and the 'trend' entry of the returned dictionary,
\* nothing else.
compute_trend(composite_score) ==
    /\ daemon = "AttentionMonitorDaemon"
    /\ Len(focus_history) < MaxHistory
    /\ focus_history' = HistoryAfter(composite_score)
    /\ result' = [op |-> "compute_trend", score |-> composite_score,
                  trend |-> TrendTimesTen(HistoryAfter(composite_score))]
    /\ UNCHANGED <<now, tz, current_session, time_block_sessions, attention_log,
                   tbmVars, clsVars, runVars, camera_handle, release_calls, requests>>

\* ------------------------------------------------- the daemons' run()

\* the request threads of the server; a thread that is in no call
Requests == {1, 2}
NoRequest == [op |-> "none", pc |-> "idle", outcome |-> "none"]

\* the thread has not entered run()
RunIdle ==
    /\ running = FALSE
    /\ pc = "ready"
    /\ stop_requested = FALSE
    /\ focus_history = <<>>
    /\ camera_handle = IF daemon = "AttentionMonitorDaemon" /\ "camera" \in capabilities
                       THEN "open" ELSE "none"
    /\ release_calls = 0
    /\ requests = [r \in Requests |-> NoRequest]

dataVars == <<now, tz, current_session, time_block_sessions, tbmVars>>

\* run(): self.running = True
run_enter ==
    /\ pc = "ready"
    /\ running' = TRUE
    /\ pc' = "loop"
    /\ UNCHANGED <<dataVars, attention_log, result, clsVars, stop_requested, extVars>>

\* while self.running:
run_while ==
    /\ pc = "loop"
    /\ pc' = IF running THEN "compute" ELSE "finally"
    /\ UNCHANGED <<dataVars, attention_log, result, clsVars, running, stop_requested, extVars>>

\* the tick's compute_attention_score() / compute_focus_score()
run_compute ==
    /\ pc = "compute"
    /\ \/ compute_attention_score
       \/ compute_focus_score
       \/ enhanced_compute_focus_score
    /\ pc' = "log"
    /\ UNCHANGED <<running, stop_requested, extVars>>

\* The tick's log_attention_event() / log_focus_state() and time.sleep().
\* A failing database call is caught inside the log function.  The row of
\* AttentionMonitorDaemon carries the composite score as computed; the
\* focus_states table of the other two daemons is read by nothing here.
run_log(dbOk) ==
    /\ pc = "log"
    /\ IF daemon = "AttentionMonitorDaemon" /\ dbOk
       THEN /\ Len(attention_log) < MaxLog
            /\ attention_log' = Append(attention_log,
                                       [timestamp |-> LocalNow, score |-> result.score])
       ELSE UNCHANGED attention_log
    /\ pc' = "loop"
    /\ UNCHANGED <<dataVars, result, clsVars, running, stop_requested, extVars>>

\* An exception leaves the tick's calls.  AttentionMonitorDaemon.run catches
\* it inside the loop, sleeps and goes on; the run() of the other two has its
\* try around the whole loop.
tick_raises ==
    /\ pc \in {"compute", "log"}
    /\ pc' = IF daemon = "AttentionMonitorDaemon" THEN "loop" ELSE "finally"
    /\ UNCHANGED <<dataVars, attention_log, result, clsVars, running, stop_requested, extVars>>

\* if self.camera: self.camera.release().  self.camera is not set to None,
\* so a second stop() releases the handle again.
ReleaseCamera ==
    IF camera_handle = "none"
    THEN UNCHANGED <<camera_handle, release_calls>>
    ELSE /\ camera_handle' = "released"
         /\ release_calls' = IF release_calls < 2 THEN release_calls + 1 ELSE 2

\* finally: self.running = False (AttentionMonitorDaemon: self.stop())
run_finally ==
    /\ pc = "finally"
    /\ running' = FALSE
    /\ pc' = "done"
    /\ ReleaseCamera
    /\ UNCHANGED <<dataVars, attention_log, result, clsVars, stop_requested,
                   focus_history, requests>>

\* stop(), from the server's thread: RFAIServer.stop_daemons calls it once
stop ==
    /\ ~stop_requested
    /\ running' = FALSE
    /\ stop_requested' = TRUE
    /\ ReleaseCamera
    /\ UNCHANGED <<dataVars, attention_log, result, clsVars, pc,
                   focus_history, requests>>

\* ------------------------------ SessionManager called from two threads

\* The methods of SessionManager take no lock; the server handles each request
\* in a thread of its own.  A call is modelled as the steps between which
\* another thread can run: the test of self.current_session, then each
\* statement that reads or writes it.
ReqOps == {"end_session", "record_attention_sample", "record_content_shown",
           "get_session_stats"}

Finished(outcome) == [op |-> "none", pc |-> "done", outcome |-> outcome]

reqOther == <<now, tz, attention_log, tbmVars, clsVars, runVars, result,
              focus_history, camera_handle, release_calls>>

\* if not self.current_session: return ...
call_check(r, op) ==
    /\ requests[r] = NoRequest
    /\ requests' = [requests EXCEPT ![r] =
                        IF HasSession
                        THEN [op |-> op, pc |-> "body", outcome |-> "none"]
                        ELSE [Finished("no_session") EXCEPT !.op = op]]
    /\ UNCHANGED <<current_session, time_block_sessions, reqOther>>

\* end_session, inside its try: elapsed and session_data subscript
\* self.current_session; on None the TypeError is caught by the except,
\* which returns success False with the exception's text
end_session_read(r) ==
    /\ requests[r].op = "end_session" /\ requests[r].pc = "body"
    /\ requests' = [requests EXCEPT ![r] =
                        IF HasSession THEN [@ EXCEPT !.pc = "update"]
                        ELSE [@ EXCEPT !.pc = "done", !.outcome = "caught"]]
    /\ UNCHANGED <<current_session, time_block_sessions, reqOther>>

\* end_session: UPDATE ... WHERE id = self.current_session['id'], commit
end_session_update(r, avg_attention) ==
    /\ requests[r].op = "end_session" /\ requests[r].pc = "update"
    /\ IF HasSession
       THEN /\ time_block_sessions' =
                   [time_block_sessions EXCEPT ![Session.id] =
                       [time_block_sessions[Session.id] EXCEPT
                           !.end_time = UtcNow,
                           !.attention_average = avg_attention]]
            /\ requests' = [requests EXCEPT ![r] = [@ EXCEPT !.pc = "clear"]]
       ELSE /\ requests' = [requests EXCEPT ![r] =
                               [@ EXCEPT !.pc = "done", !.outcome = "caught"]]
            /\ UNCHANGED time_block_sessions
    /\ UNCHANGED <<current_session, reqOther>>

\* end_session: self.current_session = None; return result
end_session_clear(r) ==
    /\ requests[r].op = "end_session" /\ requests[r].pc = "clear"
    /\ current_session' = <<>>
    /\ requests' = [requests EXCEPT ![r] = [@ EXCEPT !.pc = "done", !.outcome = "success"]]
    /\ UNCHANGED <<time_block_sessions, reqOther>>

\* record_attention_sample: self.current_session['attention_scores'].append;
\* nothing catches the TypeError
record_attention_sample_append(r, score) ==
    /\ requests[r].op = "record_attention_sample" /\ requests[r].pc = "body"
    /\ IF HasSession
       THEN /\ Len(Session.attention_scores) < MaxSamples
            /\ current_session' =
                   <<[Session EXCEPT !.attention_scores = Append(@, score)]>>
            /\ requests' = [requests EXCEPT ![r] =
                               [@ EXCEPT !.pc = "done", !.outcome = "returned"]]
       ELSE /\ requests' = [requests EXCEPT ![r] =
                               [@ EXCEPT !.pc = "done", !.outcome = "raised"]]
            /\ UNCHANGED current_session
    /\ UNCHANGED <<time_block_sessions, reqOther>>

\* record_content_shown: self.current_session['content_shown'].append,
\* outside the try
record_content_shown_append(r) ==
    /\ requests[r].op = "record_content_shown" /\ requests[r].pc = "body"
    /\ IF HasSession
       THEN /\ Session.content_shown < MaxContent
            /\ current_session' = <<[Session EXCEPT !.content_shown = @ + 1]>>
            /\ requests' = [requests EXCEPT ![r] = [@ EXCEPT !.pc = "insert"]]
       ELSE /\ requests' = [requests EXCEPT ![r] =
                               [@ EXCEPT !.pc = "done", !.outcome = "raised"]]
            /\ UNCHANGED current_session
    /\ UNCHANGED <<time_block_sessions, reqOther>>

\* record_content_shown: the INSERT with self.current_session['id'], inside
\* a try whose except logs and returns
record_content_shown_insert(r) ==
    /\ requests[r].op = "record_content_shown" /\ requests[r].pc = "insert"
    /\ requests' = [requests EXCEPT ![r] =
                        [@ EXCEPT !.pc = "done",
                                  !.outcome = IF HasSession THEN "returned" ELSE "caught"]]
    /\ UNCHANGED <<current_session, time_block_sessions, reqOther>>

\* get_session_stats: the reads of self.current_session after the test
get_session_stats_read(r) ==
    /\ requests[r].op = "get_session_stats" /\ requests[r].pc = "body"
    /\ requests' = [requests EXCEPT ![r] =
                        [@ EXCEPT !.pc = "done",
                                  !.outcome = IF ~HasSession THEN "raised"
                                              ELSE IF Session.goal_duration_minutes = 0
                                              THEN "zero_division"
                                              ELSE "returned"]]
    /\ UNCHANGED <<current_session, time_block_sessions, reqOther>>

\* The clock advances; the value returned by the last call is no longer
\* the answer for the new time.
NoResult == [op |-> "none"]

Tick ==
    /\ now < MaxClock
    /\ now' = now + 1
    /\ result' = NoResult
    /\ UNCHANGED <<tz, current_session, time_block_sessions, attention_log, tbmVars, clsVars, runVars, extVars>>

Init ==
    /\ now = 0
    /\ tz = 0
    /\ current_session = <<>>
    /\ time_block_sessions = <<>>
    /\ attention_log = <<>>
    /\ config_file = "valid"
    /\ schedule = <<>>
    /\ tbm_current_block = NoBlock
    /\ manual_override_block = NoBlock
    /\ ClassifierIdle
    /\ RunIdle
    /\ result = NoResult

Next ==
    \/ Tick
    \/ \E n \in SessionBlockNames, g \in Goals, t \in Thresholds, ok \in BOOLEAN :
          start_session(n, BlockTypeOf(n), g, t, ok)
    \/ \E a \in AvgAttentions : is_session_complete(a)
    \/ record_content_shown
    \/ \E s \in SampleScores : record_attention_sample(s)
    \/ get_session_stats
    \/ \E a \in AvgAttentions, ok \in BOOLEAN : end_session(a, ok)

Spec == Init /\ [][Next]_vars

\* The server's gate handler: create_app builds the TimeBlockContentManager,
\* whose constructor computes current_block once.
InitHandler ==
    /\ now = 0
    /\ tz = 0
    /\ current_session = <<>>
    /\ time_block_sessions = <<>>
    /\ attention_log = <<>>
    /\ config_file \in ConfigFiles
    /\ \E time_blocks \in Schedules : schedule = load_config(config_file, time_blocks)
    /\ manual_override_block = NoBlock
    /\ tbm_current_block = ScheduleBlockAt(TimeOfDay(0))
    /\ ClassifierIdle
    /\ RunIdle
    /\ result = NoResult

NextHandler ==
    \/ Tick
    \/ \E n \in BlockNames \cup {"None", "Unknown"} : set_manual_override(n)
    \/ clear_manual_override
    \/ \E c \in ContentTypes : check_access(c)

SpecHandler == InitHandler /\ [][NextHandler]_vars

\* BlockAccessManager over the database the session handlers and the
\* attention daemon write
InitAccess ==
    /\ now = 0
    /\ tz \in TzOffsets
    /\ current_session = <<>>
    /\ time_block_sessions = <<>>
    /\ attention_log = <<>>
    /\ config_file \in ConfigFiles
    /\ \E time_blocks \in Schedules : schedule = load_config(config_file, time_blocks)
    /\ manual_override_block = NoBlock
    /\ tbm_current_block = NoBlock
    /\ ClassifierIdle
    /\ RunIdle
    /\ result = NoResult

NextAccess ==
    \/ Tick
    \/ \E n \in BlockNames, g \in Goals : start_time_block_session(n, g)
    \/ \E id \in 1..(MaxGateRows + 1) : end_time_block_session(id)
    \/ \E s \in Scores : log_attention_event(s)
    \/ \E c \in ContentTypes : can_access_content(c)
    \/ \E id \in 1..(MaxGateRows + 1) : get_block_progress(id)

SpecAccess == InitAccess /\ [][NextAccess]_vars

\* SessionManager and BlockAccessManager over the same database: the session
\* row SessionManager inserts is the open session BlockAccessManager finds
InitVerdict ==
    /\ InitAccess
    /\ tz = 0
    /\ config_file = "valid"

NextVerdict ==
    \/ Tick
    \/ \E n \in SessionBlockNames, g \in Goals, t \in Thresholds, ok \in BOOLEAN :
          start_session(n, BlockTypeOf(n), g, t, ok)
    \/ \E s \in SampleScores : record_attention_sample(s)
    \/ \E s \in Scores : log_attention_event(s)
    \/ \E c \in ContentTypes : can_access_content(c)
    \/ \E id \in 1..MaxRows : get_block_progress(id)

SpecVerdict == InitVerdict /\ [][NextVerdict]_vars

\* One classifier daemon, as its constructor leaves it
InitClassifier ==
    /\ now = 0
    /\ tz = 0
    /\ current_session = <<>>
    /\ time_block_sessions = <<>>
    /\ attention_log = <<>>
    /\ config_file = "valid"
    /\ schedule = <<>>
    /\ manual_override_block = NoBlock
    /\ tbm_current_block = NoBlock
    /\ result = NoResult
    /\ daemon \in Daemons
    /\ capabilities \in AvailableSets(daemon)
    /\ last_state = "INACTIVE"
    /\ state_duration = 0
    /\ candidate_run = NoRun
    /\ RunIdle

NextClassifier ==
    \/ compute_attention_score /\ UNCHANGED <<runVars, extVars>>
    \/ compute_focus_score /\ UNCHANGED <<runVars, extVars>>
    \/ enhanced_compute_focus_score /\ UNCHANGED <<runVars, extVars>>

SpecClassifier == InitClassifier /\ [][NextClassifier]_vars

\* One daemon's thread running its loop, and stop() from the server's thread
NextDaemon ==
    \/ run_enter
    \/ run_while
    \/ run_compute
    \/ \E dbOk \in BOOLEAN : run_log(dbOk)
    \/ tick_raises
    \/ run_finally
    \/ stop

\* the daemon as constructed on a machine with at most MaxSources sources
InitDaemon ==
    /\ InitClassifier
    /\ Cardinality(capabilities) <= MaxSources

SpecDaemon == InitDaemon /\ [][NextDaemon]_vars

\* The daemon's thread is scheduled: whenever it can take its next step (the
\* call it is in returns or raises, time.sleep() ends), it eventually does.
\* Nothing obliges the server to call stop().
ThreadStep ==
    \/ run_enter
    \/ run_while
    \/ run_compute
    \/ \E dbOk \in BOOLEAN : run_log(dbOk)
    \/ tick_raises
    \/ run_finally

SpecDaemonFair == SpecDaemon /\ WF_vars(ThreadStep)

\* One session, started before the two requests arrive
NextConcurrent ==
    \/ /\ ~HasSession
       /\ \A r \in Requests : requests[r] = NoRequest
       /\ \E n \in SessionBlockNames, g \in Goals, t \in Thresholds :
             start_session(n, BlockTypeOf(n), g, t, TRUE)
    \/ \E r \in Requests, op \in ReqOps : call_check(r, op)
    \/ \E r \in Requests : end_session_read(r)
    \/ \E r \in Requests, a \in AvgAttentions : end_session_update(r, a)
    \/ \E r \in Requests : end_session_clear(r)
    \/ \E r \in Requests, s \in SampleScores : record_attention_sample_append(r, s)
    \/ \E r \in Requests : record_content_shown_append(r)
    \/ \E r \in Requests : record_content_shown_insert(r)
    \/ \E r \in Requests : get_session_stats_read(r)

SpecConcurrent == Init /\ [][NextConcurrent]_vars

\* AttentionMonitorDaemon's history over the ticks of one run
InitTrend ==
    /\ InitClassifier
    /\ daemon = "AttentionMonitorDaemon"
    /\ capabilities = {"window"}

NextTrend == \E s \in Scores : compute_trend(s)

SpecTrend == InitTrend /\ [][NextTrend]_vars

\* ----------------------------------------------------------------- claims

\* C1: whenever is_session_complete returns is_complete = true, the elapsed
\* time has reached the goal and the average attention has reached the
\* threshold; it is false when elapsed < goal, and false when the average is
\* below the threshold; time_met and attention_met report the two conditions.
C1_DualCompletion ==
    (result.op = "is_session_complete" /\ result.active /\ ~result.raised) =>
        /\ result.is_complete =>
              /\ SessionElapsed >= Session.goal_duration_minutes
              /\ result.avg >= Session.attentiveness_threshold
        /\ SessionElapsed < Session.goal_duration_minutes => ~result.is_complete
        /\ result.avg < Session.attentiveness_threshold => ~result.is_complete
        /\ result.time_met = (SessionElapsed >= Session.goal_duration_minutes)
        /\ result.attention_met = (result.avg >= Session.attentiveness_threshold)

C1_Witness ==
    /\ result.op = "is_session_complete"
    /\ result.active
    /\ result.is_complete
    /\ SessionElapsed >= Session.goal_duration_minutes
    /\ result.avg >= Session.attentiveness_threshold

\* C2: a start_session call made while a session is active is rejected with an
\* error result and leaves the active session and the sessions table as they
\* were (nothing is queued or replaced).
C2_SessionConflict ==
    [][(HasSession /\ result'.op = "start_session") =>
          /\ result'.success = FALSE
          /\ current_session' = current_session
          /\ time_block_sessions' = time_block_sessions]_vars

\* C10: a session is closed only when the dual condition holds or the
\* force-end time 1.5 x goal has passed; in particular never while
\* elapsed < goal_duration.
C10_OpenUntilGoal ==
    [][(HasSession /\ ~HasSession') =>
          /\ SessionElapsed >= Session.goal_duration_minutes
          /\ \/ time_block_sessions'[Session.id].attention_average
                    >= Session.attentiveness_threshold
             \/ 2 * SessionElapsed >= 3 * Session.goal_duration_minutes]_vars

\* The category a content type belongs to, as the claims use the word: the
\* block type that serves it.
CategoryOf(content_type) ==
    CASE content_type \in {"science_youtube", "science_papers", "youtube_science", "papers"}
             -> "science_youtube_and_papers"
      [] content_type \in {"self_help_youtube", "youtube_self_help"} -> "self_help_youtube"
      [] content_type = "movies" -> "artistic_movies"
      [] OTHER -> content_type

\* The block whose time range contains the current time
ActiveBlock == ScheduleBlockAt(TimeOfDay(LocalNow))

\* C6: with no manual override, when the schedule is empty or the current time
\* lies outside every block, the access check allows every content type.
C6_GateUnrestricted ==
    (result.op = "check_access" /\ manual_override_block = NoBlock /\ ActiveBlock = NoBlock)
        => result.access_allowed

\* C8: with no manual override, when a block is active and the requested
\* category differs from the block's, the access check denies and the reason
\* names the active block.
C8_GateDeny ==
    (/\ result.op = "check_access"
     /\ manual_override_block = NoBlock
     /\ ActiveBlock # NoBlock
     /\ CategoryOf(result.requested) # ActiveBlock.content_type)
        => (~result.access_allowed /\ result.reason.block = ActiveBlock.name)

\* C7: when a block is active and the requested content type is one of the
\* block's own, can_access_content allows it, whatever the state of the
\* block's session.
C7_GateMatch ==
    (/\ result.op = "can_access_content"
     /\ ActiveBlock # NoBlock
     /\ result.requested \in get_allowed_content_types(ActiveBlock))
        => result.allowed

\* C9: once the time since the session started reaches 1.5 x goal,
\* get_block_progress reports can_end_session, whatever the attention.
C9_ForceEnd ==
    (/\ result.op = "get_block_progress"
     /\ ~result.error
     /\ OverTime(UtcNow - time_block_sessions[result.session_id].start_time,
                 time_block_sessions[result.session_id].goal_duration_minutes))
        => result.can_end_session

\* C3: the committed state changes to a band only after that band has been
\* the candidate for at least the dwell time, from every state.
C3_HysteresisSafety ==
    [][last_state' # last_state =>
          (candidate_run'.count - 1) * Interval(daemon) >= Dwell(daemon)]_vars

\* C4: a band that has been the candidate on consecutive ticks for at least
\* the dwell time is the committed state.
C4_DwellTransition ==
    (candidate_run.count - 1) * Interval(daemon) >= Dwell(daemon)
        => last_state = candidate_run.band

\* C5: the composite score is the weighted mean of the available sources
\* alone, with their weights renormalised.
C5_FusionRenormalised ==
    (/\ result.op \in {"compute_attention_score", "compute_focus_score",
                       "enhanced_compute_focus_score"}
     /\ TotalWeight(weights(daemon), capabilities) > 0)
        => result.score.num * TotalWeight(weights(daemon), capabilities)
             = WeightedSum(weights(daemon), result.signals, capabilities)
                 * result.score.den

\* C11: a successful end_session stamps the row's end time, clears the slot and
\* returns a summary with the session's duration, the count of content shown
\* and, as mean engagement, the mean of the samples ingested into the session.
C11_EndSessionSummary ==
    [][(HasSession /\ result'.op = "end_session" /\ result'.success) =>
          /\ current_session' = <<>>
          /\ time_block_sessions'[Session.id].end_time = UtcNow
          /\ result'.session_data.duration_minutes = SessionElapsed
          /\ result'.session_data.content_count = Session.content_shown
          /\ Len(Session.attention_scores) > 0 =>
                result'.session_data.average_attention * 100
                      * Len(Session.attention_scores)
                    = SumSeq(Session.attention_scores)]_vars

\* C12: from one tick to the next, while the committed state is unchanged, the
\* confidence does not decrease, whatever band the tick's score falls in.
C12_ConfidenceMonotone ==
    [][(/\ result.op \in {"compute_attention_score", "compute_focus_score",
                          "enhanced_compute_focus_score"}
        /\ result'.op = result.op
        /\ last_state' = last_state)
          => result'.confidence >= result.confidence]_vars

\* C13: ending a session whose id is unknown or whose row has already ended
\* returns an error and leaves every row as it was.
C13_SessionNotFound ==
    [][(/\ result'.op = "end_time_block_session"
        /\ \/ result'.session_id \notin 1..Len(time_block_sessions)
           \/ time_block_sessions[result'.session_id].end_time # NULL)
          => (~result'.success /\ time_block_sessions' = time_block_sessions)]_vars

\* C14: the loop of a daemon is left only after stop has been requested.
C14_TicksAbsorbed == pc \in {"finally", "done"} => stop_requested

\* C15: an access decision is made only by a component whose configuration
\* was read; with a missing or malformed file the component does not run.
C15_ConfigurationError ==
    result.op \in {"check_access", "can_access_content"} => config_file = "valid"

\* C16: a tick that reports no available source returns a composite score of
\* exactly 50 and a state.
C16_DegenerateFusion ==
    (/\ result.op \in {"compute_attention_score", "compute_focus_score",
                       "enhanced_compute_focus_score"}
     /\ result.capabilities = 0)
        => (/\ result.score.num = 50 * result.score.den
            /\ result.state \in {"FOCUSED", "ACTIVE", "DISTRACTED", "INACTIVE"})

\* C17: while a manual override is set, the block get_block_info reports is
\* the override block, whatever the clock; the override changes only by an
\* override request: one that names a block of the schedule sets it to that
\* block, one that names no block of the schedule leaves it as it was, and
\* clearing removes it and makes the current block the one derived from the
\* time of the call.
C17_ManualOverride ==
    [][/\ manual_override_block' # NoBlock => get_block_info' = manual_override_block'
       /\ manual_override_block' # manual_override_block =>
              result'.op \in {"set_manual_override", "clear_manual_override"}
       /\ result'.op = "clear_manual_override" =>
              /\ manual_override_block' = NoBlock
              /\ get_block_info' = ScheduleBlockAt(TimeOfDay(now'))
       /\ (result'.op = "set_manual_override" /\ BlockNamed(result'.block_name) # {}) =>
              /\ manual_override_block'.name = result'.block_name
              /\ manual_override_block' \in {schedule[i] : i \in 1..Len(schedule)}
       /\ (/\ result'.op = "set_manual_override"
           /\ BlockNamed(result'.block_name) = {}
           /\ result'.block_name # "None") =>
              manual_override_block' = manual_override_block]_vars

\* an access check decided by an override block that the clock has left
C17_Witness ==
    /\ result.op = "check_access"
    /\ manual_override_block # NoBlock
    /\ ScheduleBlockAt(TimeOfDay(LocalNow)) # manual_override_block
    /\ result.current_block = manual_override_block.name

\* C18: with a block active, a session open for it and its attention goal
\* met, can_access_content allows the content types that are not the block's.
C18_BreakAfterGoal ==
    (/\ result.op = "can_access_content"
     /\ result.status.has_active_block
     /\ result.status.session_id # NULL
     /\ ~result.status.locked
     /\ result.requested \in AllTypes \ get_allowed_content_types(ActiveBlock))
        => result.allowed

\* C19: the gate's answer is the one it gives when the session rows and the
\* attention log are empty: it does not depend on what was persisted.
C19_NoFeedback ==
    result.op = "can_access_content" =>
        result.allowed = (result.requested \in get_allowed_content_types(ActiveBlock))

\* the rows of time_block_sessions whose end_time is null
OpenRows == {i \in 1..Len(time_block_sessions) : time_block_sessions[i].end_time = NULL}

\* C20: at most one row is open, and the session in memory, when there is
\* one, is that row.
C20_OneOpenSession ==
    /\ Cardinality(OpenRows) <= 1
    /\ HasSession => OpenRows = {Session.id}

C30_QueriesReturn ==
    (result.op \in {"is_session_complete", "get_session_stats"} /\ HasSession)
        => ~result.raised

\* C22: with no manual override set, every access check decides for the block
\* that contains the time of the query: the block the reply names is that
\* block ("None" outside every block), never one determined earlier.
C22_DecisionAtQueryTime ==
    (result.op = "check_access" /\ manual_override_block = NoBlock)
        => result.current_block = ActiveBlock.name

C29_GatesAgree ==
    (/\ result.op = "check_access"
     /\ manual_override_block = NoBlock
     /\ get_block_info = bam_get_current_block
     /\ SessionIdChoices = {NULL})
        => (result.access_allowed
              <=> /\ ~get_access_status(NULL).locked
                  /\ result.requested \in get_access_status(NULL).allowed_content_types)

\* C23: whenever BlockAccessManager treats the engagement goal of the open
\* session as met (attention_met in get_block_progress, or an unlocked status
\* for the session in can_access_content), SessionManager's verdict for that
\* session, from the session's own threshold and the mean of its samples, is
\* met as well.  Sessions with a zero goal or threshold, whose verdict raises,
\* are left out.
C23_GateFollowsSession ==
    (/\ HasSession
     /\ Session.goal_duration_minutes # 0
     /\ Session.attentiveness_threshold # 0
     /\ \/ /\ result.op = "get_block_progress"
            /\ ~result.error
            /\ result.session_id = Session.id
            /\ result.attention_met
         \/ /\ result.op = "can_access_content"
            /\ result.status.session_id = Session.id
            /\ ~result.status.locked)
        => /\ Session.attention_scores # <<>>
           /\ SumSeq(Session.attention_scores)
                >= Session.attentiveness_threshold * 100 * Len(Session.attention_scores)

\* C24: once the history holds more than ten scores, the trend is the average
\* of the last ten scores minus the average of the scores immediately before
\* them (up to ten), each average taken over the number of scores it covers.
C24_TrendAverages ==
    (result.op = "compute_trend" /\ Len(focus_history) > 10) =>
        result.trend * Len(OlderScores(focus_history))
          = Len(OlderScores(focus_history)) * SumSeq(RecentScores(focus_history))
              - 10 * SumSeq(OlderScores(focus_history))

\* C25: the camera handle is released at most once, and never while the loop
\* is inside a tick: a stop() from another thread lets the tick finish first.
C25_HandleLifetime ==
    /\ release_calls <= 1
    /\ camera_handle = "released" => pc \notin {"compute", "log"}

\* C26: for the daemons the server starts, once stop() has been called, at
\* whatever point of the thread's progress, run() eventually returns.
C26_StopTerminates ==
    (stop_requested /\ daemon \in {"AttentionMonitorDaemon", "FocusDetectorDaemon"})
        ~> (pc = "done")

\* C28: when the calls in flight have all returned and an end_session among
\* them found the session active, exactly one end_session has succeeded (one
\* summary persisted), and no call has met the cleared slot after its test:
\* none raised on it and none had the error caught.
C28_ExactlyOneEnd ==
    (/\ \A r \in Requests : requests[r].pc = "done"
     /\ \E r \in Requests :
           requests[r].op = "end_session" /\ requests[r].outcome # "no_session")
        => /\ Cardinality({r \in Requests :
                 requests[r].op = "end_session" /\ requests[r].outcome = "success"}) = 1
           /\ \A r \in Requests : requests[r].outcome \notin {"caught", "raised"}

====
